---- MODULE Spec2Model ----
(***************************************************************************)
(* SourceSocket (src/sys/windows/source_socket.rs): the adapter that lets  *)
(* a borrowed RawSocket be registered with a Registry.  Every operation    *)
(* of the adapter builds an IoSource from the handle reference, delegates  *)
(* to the same-named IoSource operation and returns its result.            *)
(*                                                                         *)
(* IoSource, Registry and Poll live outside source_socket.rs.  They are    *)
(* modelled from the specification: the registry keeps one registration    *)
(* (token, interests) per handle, the binding is scoped to the handle      *)
(* reference and keeps no registration state of its own.                   *)
(***************************************************************************)
EXTENDS FiniteSets, Integers, Sequences, TLC

\* ---------------------------------------------------------------- bounds
NumHandles == 2
NumTokens == 2

Handles == 1..NumHandles
Tokens == 0..(NumTokens - 1)
Readiness == {"READABLE", "WRITABLE"}
Interests == (SUBSET Readiness) \ {{}}

NoToken == -1
NoReg == [registered |-> FALSE, token |-> NoToken, interests |-> {}]
NoAdapter == [sock |-> 0]
CallOps == {"register", "reregister", "deregister"}

VARIABLES
    sockets,    \* raw socket handles that are open; owned by the caller
    registry,   \* the registry's per-handle state
    adapter,    \* the SourceSocket value the caller keeps from the last call
    live,       \* number of IoSource objects alive
    calls,      \* what the last adapter call did with IoSource, in order
    last,       \* the last step: operation, arguments, result
    delivered,  \* events returned by the last poll
    expected    \* what the results returned to the caller established

vars == <<sockets, registry, adapter, live, calls, last, delivered, expected>>

\* ------------------------------------------------- registry and binding
\* A system state sys is the record [registry, sockets, calls, live]: it
\* stands for the &Registry argument and the sockets of the process.  A
\* binding value b is a record with the fields obj (the IoSource) and sys
\* (the system state it acts in); an operation of the binding returns such
\* a record with its result in the field res.
Registration(token, interests) ==
    [registered |-> TRUE, token |-> token, interests |-> interests]

BindingCall(op, h, token, interests, res) ==
    [op |-> op, h |-> h, token |-> token, interests |-> interests, res |-> res]

Logged(sys, call) == [sys EXCEPT !.calls = Append(@, call)]

\* IoSource::new(io): a binding scoped to the handle reference.
IoSource_new(io, sys) ==
    [obj |-> [inner |-> io],
     sys |-> [Logged(sys, BindingCall("new", io, NoToken, {}, "Ok"))
                EXCEPT !.live = @ + 1]]

\* The binding is discarded at the end of the call; the registry's state
\* is not affected.
IoSource_drop(r) ==
    [res |-> r.res, sys |-> [r.sys EXCEPT !.live = @ - 1]]

RegisterResult(reg, h) == IF reg[h].registered THEN "AlreadyExists" ELSE "Ok"

UpdateResult(reg, h) == IF reg[h].registered THEN "Ok" ELSE "NotFound"

Registry_set(sys, h, res, entry) ==
    IF res = "Ok" THEN [sys EXCEPT !.registry[h] = entry] ELSE sys

IoSource_register(b, token, interests) ==
    [res |-> RegisterResult(b.sys.registry, b.obj.inner),
     obj |-> b.obj,
     sys |-> Logged(Registry_set(b.sys, b.obj.inner,
                                 RegisterResult(b.sys.registry, b.obj.inner),
                                 Registration(token, interests)),
                    BindingCall("register", b.obj.inner, token, interests,
                                RegisterResult(b.sys.registry, b.obj.inner)))]

IoSource_reregister(b, token, interests) ==
    [res |-> UpdateResult(b.sys.registry, b.obj.inner),
     obj |-> b.obj,
     sys |-> Logged(Registry_set(b.sys, b.obj.inner,
                                 UpdateResult(b.sys.registry, b.obj.inner),
                                 Registration(token, interests)),
                    BindingCall("reregister", b.obj.inner, token, interests,
                                UpdateResult(b.sys.registry, b.obj.inner)))]

IoSource_deregister(b) ==
    [res |-> UpdateResult(b.sys.registry, b.obj.inner),
     obj |-> b.obj,
     sys |-> Logged(Registry_set(b.sys, b.obj.inner,
                                 UpdateResult(b.sys.registry, b.obj.inner),
                                 NoReg),
                    BindingCall("deregister", b.obj.inner, NoToken, {},
                                UpdateResult(b.sys.registry, b.obj.inner)))]

\* Events of one poll: one event per registered handle whose readiness
\* meets its interests, tagged with the registration's token.
PollEvents(reg, rd) ==
    { [h |-> h, token |-> reg[h].token, readiness |-> rd[h] \cap reg[h].interests] :
        h \in { x \in Handles : reg[x].registered /\ rd[x] \cap reg[x].interests # {} } }

\* ---------------------------------------------------------- the adapter
\* pub struct SourceSocket<'a>(pub &'a RawSocket);
SourceSocket(h) == [sock |-> h]

\* What a method of the adapter hands back: the io::Result, the adapter
\* (&mut self) and the system state.
Returned(self, r) == [res |-> r.res, self |-> self, sys |-> r.sys]

OrElseRegister(r, token, interests) ==
    IF r.res = "Ok" THEN r ELSE IoSource_register(r, token, interests)

OrElseReregister(r, token, interests) ==
    IF r.res = "Ok" THEN r ELSE IoSource_reregister(r, token, interests)

\* register that falls back to reregister when the binding reports an error.
Mut_register_or_reregister(self, sys, token, interests) ==
    Returned(self, IoSource_drop(OrElseReregister(
        IoSource_register(IoSource_new(self.sock, sys), token, interests),
        token, interests)))

\* register that passes Token(0) instead of the caller's token.
Mut_register_token0(self, sys, token, interests) ==
    Returned(self, IoSource_drop(
        IoSource_register(IoSource_new(self.sock, sys), 0, interests)))

\* register that tries once more when the binding reports an error.
Mut_register_retry(self, sys, token, interests) ==
    Returned(self, IoSource_drop(OrElseRegister(
        IoSource_register(IoSource_new(self.sock, sys), token, interests),
        token, interests)))

\* register that keeps its binding instead of discarding it.
Mut_register_keeps_binding(self, sys, token, interests) ==
    Returned(self,
        IoSource_register(IoSource_new(self.sock, sys), token, interests))

\* IoSource::new(self.0).register(registry, token, interests)
SourceSocket_register(self, sys, token, interests) ==
    Returned(self, IoSource_drop(
        IoSource_register(IoSource_new(self.sock, sys), token, interests)))

\* reregister written as register.
Mut_reregister_as_register(self, sys, token, interests) ==
    Returned(self, IoSource_drop(
        IoSource_register(IoSource_new(self.sock, sys), token, interests)))

\* reregister that falls back to register when the binding reports an error.
Mut_reregister_or_register(self, sys, token, interests) ==
    Returned(self, IoSource_drop(OrElseRegister(
        IoSource_reregister(IoSource_new(self.sock, sys), token, interests),
        token, interests)))

\* IoSource::new(self.0).reregister(registry, token, interests)
SourceSocket_reregister(self, sys, token, interests) ==
    Returned(self, IoSource_drop(
        IoSource_reregister(IoSource_new(self.sock, sys), token, interests)))

\* deregister that returns success without delegating.
Mut_deregister_skips(self, sys) ==
    [res |-> "Ok", self |-> self, sys |-> sys]

\* deregister that drops the binding's error.
Mut_deregister_swallows(self, sys) ==
    [Returned(self, IoSource_drop(IoSource_deregister(IoSource_new(self.sock, sys))))
       EXCEPT !.res = "Ok"]

\* deregister that also closes the socket.
Mut_deregister_closes(self, sys) ==
    [Returned(self, IoSource_drop(IoSource_deregister(IoSource_new(self.sock, sys))))
       EXCEPT !.sys.sockets = @ \ {self.sock}]

\* IoSource::new(self.0).deregister(registry)
SourceSocket_deregister(self, sys) ==
    Returned(self, IoSource_drop(IoSource_deregister(IoSource_new(self.sock, sys))))

\* event::Source for SourceSocket: dispatch on the operation's name.
Invoke(op, self, sys, token, interests) ==
    CASE op = "register" -> SourceSocket_register(self, sys, token, interests)
      [] op = "reregister" -> SourceSocket_reregister(self, sys, token, interests)
      [] op = "deregister" -> SourceSocket_deregister(self, sys)

\* ------------------------------------------------------------ the caller
Sys == [registry |-> registry, sockets |-> sockets, calls |-> <<>>, live |-> live]

NoReadiness == [h \in Handles |-> {}]

\* after: for a deregister and for a poll, the adapter operation that the
\*        previous step completed with success on the same handle, if any.
\* ready: the readiness of socket h at a poll, empty for any other step.
Step(op, h, token, interests, res, after) ==
    [op |-> op, h |-> h, token |-> token, interests |-> interests,
     res |-> res, after |-> after, ready |-> {}]

CallerStep(op) == Step(op, 0, NoToken, {}, "none", "none")

After(h) ==
    IF last.op \in CallOps /\ last.h = h /\ last.res = "Ok" THEN last.op ELSE "none"

Never == [via |-> "never", token |-> NoToken, interests |-> {}]

Established(op, token, interests) ==
    IF op = "deregister"
    THEN [via |-> "deregister", token |-> NoToken, interests |-> {}]
    ELSE [via |-> "registered", token |-> token, interests |-> interests]

Init ==
    /\ sockets = {}
    /\ registry = [h \in Handles |-> NoReg]
    /\ adapter = NoAdapter
    /\ live = 0
    /\ calls = <<>>
    /\ last = CallerStep("init")
    /\ delivered = {}
    /\ expected = [h \in Handles |-> Never]

\* TcpListener::bind: the caller opens a socket.
OpenSocket ==
    \E h \in Handles \ sockets :
        /\ sockets' = sockets \cup {h}
        /\ adapter' = NoAdapter
        /\ last' = CallerStep("open")
        /\ calls' = <<>>
        /\ delivered' = {}
        /\ UNCHANGED <<registry, live, expected>>

\* The caller closes a socket that is not registered.
CloseSocket ==
    \E h \in sockets :
        /\ ~registry[h].registered
        /\ sockets' = sockets \ {h}
        /\ adapter' = NoAdapter
        /\ expected' = [expected EXCEPT ![h] = Never]
        /\ last' = CallerStep("close")
        /\ calls' = <<>>
        /\ delivered' = {}
        /\ UNCHANGED <<registry, live>>

\* One call of the adapter.  The caller keeps the SourceSocket value of a
\* call for the next step: a call on the same handle that follows at once
\* is made on that value, any other call on a fresh SourceSocket(&fd).
KeptOrFresh(h) ==
    IF last.op \in CallOps /\ last.h = h THEN adapter ELSE SourceSocket(h)

Call(op, h, token, interests) ==
    /\ h \in sockets
    /\ \E r \in {Invoke(op, KeptOrFresh(h), Sys, token, interests)} :
          /\ registry' = r.sys.registry
          /\ sockets' = r.sys.sockets
          /\ live' = r.sys.live
          /\ calls' = r.sys.calls
          /\ adapter' = r.self
          /\ last' = Step(op, h, token, interests, r.res,
                          IF op = "deregister" THEN After(h) ELSE "none")
          /\ expected' = IF r.res = "Ok"
                         THEN [expected EXCEPT ![h] = Established(op, token, interests)]
                         ELSE expected
          /\ delivered' = {}

Register ==
    \E h \in Handles, token \in Tokens, interests \in Interests :
        Call("register", h, token, interests)

Reregister ==
    \E h \in Handles, token \in Tokens, interests \in Interests :
        Call("reregister", h, token, interests)

Deregister ==
    \E h \in Handles :
        Call("deregister", h, NoToken, {})

\* Poll::poll: socket h has become ready for rd and the registry reports
\* the readiness of the registered handles.
Poll ==
    \E h \in sockets, rd \in Interests :
        /\ delivered' = PollEvents(registry, [NoReadiness EXCEPT ![h] = rd])
        /\ last' = [CallerStep("poll") EXCEPT !.h = h, !.ready = rd, !.after = After(h)]
        /\ adapter' = NoAdapter
        /\ calls' = <<>>
        /\ UNCHANGED <<sockets, registry, live, expected>>

Next ==
    \/ OpenSocket
    \/ CloseSocket
    \/ Register
    \/ Reregister
    \/ Deregister
    \/ Poll

Spec == Init /\ [][Next]_vars

\* ---------------------------------------------------------- properties
TypeOK ==
    /\ sockets \subseteq Handles
    /\ \A h \in Handles :
          /\ registry[h] \in {NoReg} \cup
                { Registration(t, i) : t \in Tokens, i \in Interests }
          /\ registry[h].registered => h \in sockets
    /\ adapter \in {NoAdapter} \cup { SourceSocket(h) : h \in Handles }
    /\ live \in 0..1
    /\ last.res \in {"none", "Ok", "AlreadyExists", "NotFound"}

Registered(h) == registry[h].registered

\* The IoSource operations of the last adapter call, construction left out.
Delegations == SelectSeq(calls, LAMBDA c : c.op # "new")

EventsFor(evs, h) == { e \in evs : e.h = h }

\* C1: register on a handle that is not registered returns success, a
\* deregister that follows at once returns success too, and the handle is
\* then unregistered again (so the next register succeeds like the first).
C1_RoundTrip ==
    [][\A h \in Handles :
         /\ (last'.op = "register" /\ last'.h = h /\ ~Registered(h))
               => (last'.res = "Ok" /\ Registered(h)')
         /\ (/\ last.op = "register" /\ last.h = h /\ last.res = "Ok"
             /\ last'.op = "deregister" /\ last'.h = h)
               => (last'.res = "Ok" /\ registry'[h] = NoReg)]_vars

C1_Witness ==
    /\ last.op = "deregister"
    /\ last.after = "register"
    /\ last.res = "Ok"
    /\ ~Registered(last.h)

\* C2: register on a handle whose registration is in place (a register or
\* reregister has succeeded, no deregister since) returns an error and the
\* registration keeps its token and its interests.
C2_DoubleRegisterFails ==
    [][\A h \in Handles :
         (last'.op = "register" /\ last'.h = h /\ expected[h].via = "registered")
           => /\ last'.res # "Ok"
              /\ registry'[h] = registry[h]
              /\ registry'[h] = Registration(expected[h].token, expected[h].interests)
              /\ expected' = expected]_vars

C2_Witness ==
    /\ last.op = "register"
    /\ last.res = "AlreadyExists"
    /\ Registered(last.h)
    /\ registry[last.h].token # last.token
    /\ registry[last.h].interests # last.interests

\* C3: deregister on a handle that is not registered (never registered, or
\* already deregistered) returns an error and leaves the registry as it was.
C3_DeregisterUnregisteredFails ==
    [][\A h \in Handles :
         (last'.op = "deregister" /\ last'.h = h /\ ~Registered(h))
           => /\ last'.res # "Ok"
              /\ registry' = registry
              /\ expected' = expected]_vars

C3_Witness ==
    /\ last.op = "deregister"
    /\ last.after = "deregister"
    /\ last.res = "NotFound"
    /\ \E h \in Handles \ {last.h} : Registered(h)

\* C4: reregister on a registered handle returns success, and from then on
\* every event for the handle carries the new token and only readiness
\* that the new interests contain.
C4_ReregisterRetags ==
    [][/\ \A h \in Handles :
            (last'.op = "reregister" /\ last'.h = h /\ Registered(h))
              => (last'.res = "Ok" /\ registry'[h] = Registration(last'.token, last'.interests))
       /\ (last.op = "reregister" /\ last.res = "Ok" /\ last'.op = "poll")
              => \A e \in EventsFor(delivered', last.h) :
                    e.token = last.token /\ e.readiness \subseteq last.interests
       /\ last'.op = "poll"
              => \A e \in delivered' :
                    /\ expected[e.h].via = "registered"
                    /\ e.token = expected[e.h].token
                    /\ e.readiness \subseteq expected[e.h].interests]_vars

C4_Witness ==
    /\ last.op = "poll"
    /\ last.after = "reregister"
    /\ last.ready = Readiness
    /\ \E e \in delivered :
          /\ e.h = last.h
          /\ e.token = expected[last.h].token
          /\ e.readiness = {"WRITABLE"}

\* C5: after a successful register the handle is registered although the
\* binding of the call is gone, and a poll at which the handle meets the
\* interests delivers an event for it tagged with the token of the call.
C5_RegisterDelivers ==
    /\ (last.op = "register" /\ last.res = "Ok")
          => (Registered(last.h) /\ live = 0 /\
              registry[last.h] = Registration(last.token, last.interests))
    /\ (last.op = "poll" /\ expected[last.h].via = "registered"
                         /\ last.ready \cap expected[last.h].interests # {})
          => \E e \in delivered :
                /\ e.h = last.h
                /\ e.token = expected[last.h].token
                /\ e.readiness = last.ready \cap expected[last.h].interests

C5_Witness ==
    /\ last.op = "poll"
    /\ last.after = "register"
    /\ \E e \in delivered : e.h = last.h /\ e.token = 1

\* C6: once deregister has returned success, a poll delivers no event for
\* the handle, whatever its readiness, until it is registered again.
C6_DeregisterSilences ==
    last.op = "poll" =>
        \A h \in Handles :
            expected[h].via = "deregister" => EventsFor(delivered, h) = {}

C6_Witness ==
    /\ last.op = "poll"
    /\ last.after = "deregister"
    /\ last.ready = Readiness
    /\ expected[last.h].via = "deregister"
    /\ delivered = {}

\* C7: reregister on a handle that is not registered returns an error and
\* creates no registration: the registry is as before and the next poll
\* delivers nothing for the handle.
C7_ReregisterUnregisteredFails ==
    [][/\ \A h \in Handles :
            (last'.op = "reregister" /\ last'.h = h /\ ~Registered(h))
              => (last'.res # "Ok" /\ registry' = registry /\ expected' = expected)
       /\ (last.op = "reregister" /\ last.res # "Ok" /\ last'.op = "poll")
              => EventsFor(delivered', last.h) = {}]_vars

C7_Witness ==
    /\ last.op = "reregister"
    /\ last.res = "NotFound"
    /\ ~Registered(last.h)

\* C8: no adapter call, successful or failed, changes the set of open
\* sockets or the handle the adapter refers to.
C8_HandleUntouched ==
    [][last'.op \in CallOps
         => /\ sockets' = sockets
            /\ last'.h \in sockets'
            /\ adapter' = SourceSocket(last'.h)]_vars

C8_Witness ==
    /\ last.op = "deregister"
    /\ last.res = "Ok"
    /\ last.h \in sockets
    /\ adapter = SourceSocket(last.h)

\* C9: an adapter call makes exactly one call of the same-named IoSource
\* operation, with the caller's handle, token and interests, and returns
\* the result of that call.
C9_PureDelegation ==
    last.op \in CallOps =>
        /\ Len(Delegations) = 1
        /\ Delegations[1] =
             BindingCall(last.op, last.h, last.token, last.interests, last.res)

C9_Witness ==
    /\ last.op = "register"
    /\ last.res = "AlreadyExists"
    /\ Len(Delegations) = 1
    /\ Delegations[1].res = "AlreadyExists"
    /\ Delegations[1].token = 1

\* C10: every adapter call builds its binding first and leaves none alive,
\* and a call on the adapter value kept from the previous call has the
\* result and the effect that the call has on a fresh SourceSocket.
C10_Memoryless ==
    [][last'.op \in CallOps
         => /\ live = 0 /\ live' = 0
            /\ calls'[1] = BindingCall("new", last'.h, NoToken, {}, "Ok")
            /\ Len(SelectSeq(calls', LAMBDA c : c.op = "new")) = 1
            /\ \E fresh \in {Invoke(last'.op, SourceSocket(last'.h), Sys,
                                    last'.token, last'.interests)} :
                  /\ last'.res = fresh.res
                  /\ registry' = fresh.sys.registry
                  /\ adapter' = fresh.self]_vars

C10_Witness ==
    /\ last.op = "deregister"
    /\ last.after = "reregister"
    /\ last.res = "Ok"
    /\ adapter = SourceSocket(last.h)
    /\ live = 0

====
